---- MODULE Spec2Model ----
(***************************************************************************)
(* Model of the ION ED workflow service (src/main.py): the aggregation     *)
(* core call_api, the NEDM2020 normaliser get_dlr_data, and the two        *)
(* endpoints that run them (/run_workflow and the hidden /dlr_data).       *)
(*                                                                         *)
(* JSON objects and Python dicts are functions whose domain is the set of  *)
(* keys present; lists are sequences.  A Python str built by "&".join is   *)
(* a sequence of tokens ("products=", "TADM.ALG", "&", ...), and the       *)
(* substring test `x in s` is the presence of the token x: no model or     *)
(* measurement name is a substring of another token.                       *)
(* Altitudes returned by the DLR service are floats; they are modelled in  *)
(* half kilometres (an altitude a stands for a/2 km) so that round() has   *)
(* ties to break.  Frequencies are in units of 1e-4 MHz.                   *)
(***************************************************************************)
EXTENDS Integers, Sequences, FiniteSets, TLC

VARIABLES handler,      \* endpoint serving the request
          pc,           \* position in the handler
          query,        \* what the endpoint passed to call_api
          products,     \* call_api local `products` (a str after line 69)
          measurements, \* call_api local `measurements` (a str after line 70)
          data,         \* call_api local `data`: Client A's JSON body as received
          ssn, f10_7, kp,
          plot_data,    \* call_api local `plot_data`
          dlr_json,     \* get_dlr_data local `dlr_json`: Client B's JSON body
          dlr_data,     \* what get_dlr_data handed back to its caller
          exc,          \* exception in flight
          calls,        \* upstream HTTP calls issued so far, in order
          result        \* value returned by the handler

vars == <<handler, pc, query, products, measurements, data, ssn, f10_7, kp,
          plot_data, dlr_json, dlr_data, exc, calls, result>>

-----------------------------------------------------------------------------
(* Bounds of the model *)

MaxProducts == 3
MaxMeasurements == 2
MaxLen == 2
MaxFeatures == 2

-----------------------------------------------------------------------------
(* Enumerations and literals of the program *)

NEQUICK == "NEQUICK.ALG"
TADM == "TADM.ALG"
NEDM2020 == "NEDM2020.ALG"

PProducts == {NEQUICK, TADM, NEDM2020}
Measurements == {"frequency", "edensity"}
default_products == <<NEQUICK, TADM>>

MaxTadmHeight == 1000
MinDlrHeight == 100
MaxDlrHeight == 1000
DefaultF10p7 == 100
FreqFactor == 89803
DensityScale == 1000000

-----------------------------------------------------------------------------
(* Python values *)

Unset == [unset |-> TRUE]
EmptyDict == [k \in {} |-> 0]

Range(s) == {s[i] : i \in DOMAIN s}

Del(d, k) == [x \in DOMAIN d \ {k} |-> d[x]]
Put(d, k, v) == [x \in DOMAIN d \cup {k} |-> IF x = k THEN v ELSE d[x]]

KeyError(k) == [exc |-> "KeyError", arg |-> k]

Return(v) == [ret |-> v]
Raise(e) == [raise |-> e]
Returned(r) == "ret" \in DOMAIN r

\* "&".join([f"{name}={x}" for x in list])
RECURSIVE JoinParams(_, _)
JoinParams(name, list) ==
    IF list = <<>> THEN <<>>
    ELSE IF Len(list) = 1 THEN <<name, list[1]>>
    ELSE <<name, list[1], "&">> \o JoinParams(name, Tail(list))

\* needle in str
Contains(str, needle) == \E i \in DOMAIN str : str[i] = needle

\* list[:n]
Slice(list, n) == SubSeq(list, 1, IF n < Len(list) THEN n ELSE Len(list))

\* round(x) of a non-negative float given in halves: ties go to the even integer
Round(a) ==
    LET lo == a \div 2
    IN IF a % 2 = 0 THEN lo
       ELSE IF lo % 2 = 0 THEN lo ELSE lo + 1

\* x ** 0.5 of a non-negative number (exact on the perfect squares used here)
Sqrt(n) == CHOOSE k \in 0..n : k * k <= n /\ (k + 1) * (k + 1) > n

-----------------------------------------------------------------------------
(* get_dlr_data: the NEDM2020 normaliser *)

NoFeatures == [error |-> "No features found in the response"]

EmptySeries == [theight |-> <<>>, frequency |-> <<>>, edensity |-> <<>>]

\* line 332, mutated: the lower bound is exclusive
KeepHeightExclusive(height) == height <= MaxDlrHeight /\ height > MinDlrHeight

\* line 332
KeepHeight(height) == height <= MaxDlrHeight /\ height >= MinDlrHeight

\* lines 326-336: the loop over features, from feature i on
RECURSIVE DlrLoop(_, _, _)
DlrLoop(features, i, series) ==
    IF i > Len(features) THEN Return([k \in {NEDM2020} |-> series])
    ELSE LET feature == features[i] IN
         IF "geometry" \notin DOMAIN feature THEN Raise(KeyError("geometry"))
         ELSE IF "coordinates" \notin DOMAIN feature["geometry"]
              THEN Raise(KeyError("coordinates"))
         ELSE IF "properties" \notin DOMAIN feature THEN Raise(KeyError("properties"))
         ELSE IF "electron_density_10^12/m^3" \notin DOMAIN feature["properties"]
              THEN Raise(KeyError("electron_density_10^12/m^3"))
         ELSE LET coordinates == feature["geometry"]["coordinates"]
                  electron_density == feature["properties"]["electron_density_10^12/m^3"]
                  height == Round(coordinates[3])
              IN IF KeepHeight(height)
                 THEN DlrLoop(features, i + 1,
                        [theight |-> Append(series.theight, height),
                         edensity |-> Append(series.edensity, electron_density * DensityScale),
                         frequency |-> Append(series.frequency,
                                              FreqFactor * Sqrt(electron_density))])
                 ELSE DlrLoop(features, i + 1, series)

\* lines 312-337: get_dlr_data from the parsed body on
GetDlrData(json) ==
    IF "features" \notin DOMAIN json THEN Return(NoFeatures)
    ELSE IF Len(json["features"]) = 0 THEN Return(NoFeatures)
    ELSE DlrLoop(json["features"], 1, EmptySeries)

\* lines 104 and 349: strftime("%Y-%m-%dT%H:%M:%S.%fZ") of a whole-second timestamp
Strftime(timestamp) == <<timestamp, ".000000Z">>

\* lines 296-310, mutated: latitude and longitude change places
DlrCallSwapped(f10p7_sfu, lat_deg, lon_deg, time) ==
    [client |-> "B", f10p7_sfu |-> f10p7_sfu,
     receiver |-> [alt_km |-> 0, lat_deg |-> lon_deg, lon_deg |-> lat_deg],
     satellite |-> [alt_km |-> 20000, lat_deg |-> lon_deg, lon_deg |-> lat_deg],
     time |-> time]

\* lines 296-310: the POST get_dlr_data issues
DlrCall(f10p7_sfu, lat_deg, lon_deg, time) ==
    [client |-> "B", f10p7_sfu |-> f10p7_sfu,
     receiver |-> [alt_km |-> 0, lat_deg |-> lat_deg, lon_deg |-> lon_deg],
     satellite |-> [alt_km |-> 20000, lat_deg |-> lat_deg, lon_deg |-> lon_deg],
     time |-> time]

-----------------------------------------------------------------------------
(* call_api: the pure parts of the merge *)

\* line 79, negated, mutated: one of the two keys is enough
StructurallyValidEither(json) ==
    "grid_params" \in DOMAIN json \/ "model_data" \in DOMAIN json

\* line 79, negated
StructurallyValid(json) ==
    "grid_params" \in DOMAIN json /\ "model_data" \in DOMAIN json

\* lines 81-84
ExtractSolar(json) ==
    LET g == json["grid_params"]
        m == json["model_data"]
    IN IF "grid_params" \notin DOMAIN json THEN Raise(KeyError("grid_params"))
       ELSE IF "SolCycle" \notin DOMAIN g THEN Raise(KeyError("SolCycle"))
       ELSE IF "ssn" \notin DOMAIN g["SolCycle"] THEN Raise(KeyError("ssn"))
       ELSE IF "f10_7" \notin DOMAIN g["SolCycle"] THEN Raise(KeyError("f10_7"))
       ELSE IF "Kp" \notin DOMAIN g THEN Raise(KeyError("Kp"))
       ELSE IF "kp" \notin DOMAIN g["Kp"] THEN Raise(KeyError("kp"))
       ELSE IF "model_data" \notin DOMAIN json THEN Raise(KeyError("model_data"))
       ELSE IF "vprofile" \notin DOMAIN m THEN Raise(KeyError("vprofile"))
       ELSE Return([ssn |-> g["SolCycle"]["ssn"], f10_7 |-> g["SolCycle"]["f10_7"],
                    kp |-> g["Kp"]["kp"], plot_data |-> m["vprofile"]])

\* line 87: the altitude test
KeepTadmHeight(height) == height <= MaxTadmHeight

\* lines 91 and 93: array[:adjust_data_size]
AdjustSize(array, adjust_data_size) == Slice(array, adjust_data_size)

\* lines 90-93 for one measurement kind
AdjustMeasurement(r, m, req, n) ==
    IF ~Returned(r) \/ ~Contains(req, m) THEN r
    ELSE IF m \notin DOMAIN r.ret THEN Raise(KeyError(m))
    ELSE Return(Put(r.ret, m, AdjustSize(r.ret[m], n)))

\* lines 85-97, mutated: a missing TADM entry is skipped instead of raising
ReconcileTADMLenient(pd, prods, meas) ==
    IF Contains(prods, TADM) /\ TADM \in DOMAIN pd /\ "theight" \in DOMAIN pd[TADM]
    THEN LET theight == SelectSeq(pd[TADM]["theight"], KeepTadmHeight)
             n == Len(theight)
             s0 == Return(Put(pd[TADM], "theight", theight))
             s1 == AdjustMeasurement(s0, "frequency", meas, n)
             s2 == AdjustMeasurement(s1, "edensity", meas, n)
         IN IF Returned(s2) THEN Return(Put(pd, TADM, s2.ret)) ELSE Return(Del(pd, TADM))
    ELSE Return(Del(pd, TADM))

\* lines 85-97
ReconcileTADM(pd, prods, meas) ==
    IF Contains(prods, TADM)
    THEN IF TADM \notin DOMAIN pd THEN Raise(KeyError(TADM))
         ELSE IF "theight" \notin DOMAIN pd[TADM] THEN Raise(KeyError("theight"))
         ELSE LET theight == SelectSeq(pd[TADM]["theight"], KeepTadmHeight)
                  adjust_data_size == Len(theight)
                  s0 == Return(Put(pd[TADM], "theight", theight))
                  s1 == AdjustMeasurement(s0, "frequency", meas, adjust_data_size)
                  s2 == AdjustMeasurement(s1, "edensity", meas, adjust_data_size)
              IN IF Returned(s2) THEN Return(Put(pd, TADM, s2.ret)) ELSE s2
    ELSE IF TADM \in DOMAIN pd THEN Return(Del(pd, TADM)) ELSE Return(pd)

\* lines 98-101, mutated: the baseline model is left in the map
ReconcileNEQUICKKeep(pd, prods) == pd

\* lines 98-101
ReconcileNEQUICK(pd, prods) ==
    IF ~Contains(prods, NEQUICK)
    THEN IF NEQUICK \in DOMAIN pd THEN Del(pd, NEQUICK) ELSE pd
    ELSE pd

\* lines 110-115 for one measurement kind: del series[m] raises when m is missing
DropUnrequested(r, m, meas) ==
    IF ~Returned(r) \/ Contains(meas, m) THEN r
    ELSE IF m \notin DOMAIN r.ret THEN Raise(KeyError(m))
    ELSE Return(Del(r.ret, m))

\* lines 108-115, mutated: nothing is deleted from the NEDM2020 series
InsertNEDMUnfiltered(pd, dlr, meas) ==
    IF NEDM2020 \notin DOMAIN dlr THEN Raise(KeyError(NEDM2020))
    ELSE Return(Put(pd, NEDM2020, dlr[NEDM2020]))

\* lines 108-115, mutated: whatever Client B returned is stored in the map
InsertNEDMWhatever(pd, dlr, meas) ==
    IF NEDM2020 \notin DOMAIN dlr THEN Return(Put(pd, NEDM2020, dlr))
    ELSE LET s1 == DropUnrequested(Return(dlr[NEDM2020]), "frequency", meas)
             s2 == DropUnrequested(s1, "edensity", meas)
         IN IF Returned(s2) THEN Return(Put(pd, NEDM2020, s2.ret)) ELSE s2

\* lines 108-115
InsertNEDM(pd, dlr, meas) ==
    IF NEDM2020 \notin DOMAIN dlr THEN Raise(KeyError(NEDM2020))
    ELSE LET s1 == DropUnrequested(Return(dlr[NEDM2020]), "frequency", meas)
             s2 == DropUnrequested(s1, "edensity", meas)
         IN IF Returned(s2) THEN Return(Put(pd, NEDM2020, s2.ret)) ELSE s2

\* lines 76-129: the span of the try block, mutated: it ends before the Client B call
InTryBeforeDlr(line) == line \in 77..101

\* lines 76-129: the span of the try block
InTry(line) == line \in 77..128

\* line 71: the GET call_api issues
ApiCall(timestamp, lat, lon, meas) ==
    [client |-> "A", date |-> timestamp, lat |-> lat, lon |-> lon,
     products |-> JoinParams("products=", default_products), measurements |-> meas]

-----------------------------------------------------------------------------
(* Inputs: the requests the endpoints accept and the bodies the two        *)
(* upstream services may answer with                                       *)

\* non-empty lists of distinct members of S, at most n long
Lists(S, n) ==
    {l \in UNION {[1..k -> S] : k \in 1..n} :
        \A i, j \in DOMAIN l : i # j => l[i] # l[j]}

Queries ==
    [timestamp : {"2025-02-01T10:45:00"}, lat : {50}, lon : {15},
     products : Lists(PProducts, MaxProducts),
     measurements : Lists(Measurements, MaxMeasurements)]

\* an array of k samples, distinct at every index
Samples(base, k) == [i \in 1..k |-> base + i]

\* a dict holding the keys `keys` of a series
Series(keys, t, f, e) ==
    [k \in keys |-> CASE k = "theight" -> t [] k = "frequency" -> f [] k = "edensity" -> e]

TadmHeights == UNION {[1..k -> {MaxTadmHeight, 1200}] : k \in 0..MaxLen}

TadmSeries ==
    {Series(keys, t, Samples(10, f), Samples(20, e)) :
        keys \in SUBSET {"theight", "frequency", "edensity"},
        t \in TadmHeights, f \in 0..MaxLen, e \in 0..MaxLen}

NequickSeries ==
    [theight |-> <<90, 1100>>, frequency |-> <<31, 32, 33>>, edensity |-> <<41>>]

\* the service is asked for default_products only (line 71)
VProfiles ==
    {[m \in ms |-> IF m = NEQUICK THEN NequickSeries ELSE t] :
        ms \in SUBSET Range(default_products), t \in TadmSeries}

F107Values == {70, 150}

Grid(f) == [SolCycle |-> [ssn |-> 50, f10_7 |-> f], Kp |-> [kp |-> 3]]

BrokenGrids ==
    {[SolCycle |-> [f10_7 |-> 70], Kp |-> [kp |-> 3]],
     [SolCycle |-> [ssn |-> 50], Kp |-> [kp |-> 3]],
     [SolCycle |-> [ssn |-> 50, f10_7 |-> 70], Kp |-> EmptyDict]}

SomeVProfile == [m \in {NEQUICK} |-> NequickSeries]

ApiBodies ==
    {[detail |-> "Not Found"],
     [grid_params |-> Grid(70)],
     [model_data |-> [vprofile |-> SomeVProfile]]}
    \cup {[grid_params |-> g, model_data |-> [vprofile |-> SomeVProfile]] : g \in BrokenGrids}
    \cup {[grid_params |-> Grid(70), model_data |-> EmptyDict]}
    \cup {[grid_params |-> Grid(f), model_data |-> [vprofile |-> v]] :
            f \in F107Values, v \in VProfiles}

NetworkError == [exc |-> "ConnectionError", arg |-> "upstream unreachable"]

\* what requests.get(...).json() yields: a body, or an exception
ApiResponses == {Raise(NetworkError)} \cup {Return(b) : b \in ApiBodies}

Feature(alt, density) ==
    [geometry |-> [coordinates |-> <<15, 50, alt>>],
     properties |-> [k \in {"electron_density_10^12/m^3"} |-> density]]

NoGeometry == [properties |-> [k \in {"electron_density_10^12/m^3"} |-> 1]]
NoDensity == [geometry |-> [coordinates |-> <<15, 50, 600>>], properties |-> EmptyDict]

\* altitudes in half kilometres: 50, 99.5, 100.5, 300, 1000.5, 1001.5 km
Altitudes == {100, 199, 201, 600, 2001, 2003}

Features == {Feature(a, 4) : a \in Altitudes} \cup {Feature(600, 9), NoGeometry, NoDensity}

FeatureLists(F) == UNION {[1..k -> F] : k \in 0..MaxFeatures}

\* what requests.post(...).json() yields to /dlr_data
DlrResponses ==
    {Raise(NetworkError), Return([message |-> "error"])}
    \cup {Return([features |-> l]) : l \in FeatureLists(Features)}

\* what it yields inside call_api
MergeDlrResponses ==
    {Raise(NetworkError), Return([message |-> "error"]), Return([features |-> <<NoGeometry>>])}
    \cup {Return([features |-> l]) : l \in FeatureLists({Feature(100, 4), Feature(600, 9)})}

-----------------------------------------------------------------------------
(* The handlers *)

Init ==
    /\ handler = "none"
    /\ pc = "idle"
    /\ query = Unset
    /\ products = <<>>
    /\ measurements = <<>>
    /\ data = Unset
    /\ ssn = -1
    /\ f10_7 = -1
    /\ kp = -1
    /\ plot_data = Unset
    /\ dlr_json = Unset
    /\ dlr_data = Unset
    /\ exc = Unset
    /\ calls = <<>>
    /\ result = Unset

\* an exception raised at `line` of call_api: caught at line 129 when the line is
\* inside the try block, otherwise it leaves call_api
Throw(line, e) ==
    /\ exc' = e
    /\ pc' = IF InTry(line) THEN "except" ELSE "escaped"

\* lines 134-144 and 66-75: /run_workflow hands the request to call_api, which
\* builds the query strings
RunWorkflow ==
    /\ pc = "idle"
    /\ \E q \in Queries :
        /\ query' = q
        /\ products' = JoinParams("products=", q.products)
        /\ measurements' = JoinParams("measurements=", q.measurements)
    /\ handler' = "run_workflow"
    /\ pc' = "get"
    /\ UNCHANGED <<data, ssn, f10_7, kp, plot_data, dlr_json, dlr_data, exc, calls, result>>

\* lines 77-78: the GET to Client A and the parse of its body
RequestClientA ==
    /\ pc = "get"
    /\ calls' = Append(calls, ApiCall(query.timestamp, query.lat, query.lon, measurements))
    /\ \E r \in ApiResponses :
        IF Returned(r)
        THEN data' = r.ret /\ pc' = "check" /\ exc' = exc
        ELSE data' = data /\ Throw(77, r.raise)
    /\ UNCHANGED <<handler, query, products, measurements, ssn, f10_7, kp, plot_data,
                   dlr_json, dlr_data, result>>

\* lines 79-80
CheckStructure ==
    /\ pc = "check"
    /\ IF StructurallyValid(data)
       THEN pc' = "solar" /\ result' = result
       ELSE pc' = "done" /\ result' = [error |-> data]
    /\ UNCHANGED <<handler, query, products, measurements, data, ssn, f10_7, kp,
                   plot_data, dlr_json, dlr_data, exc, calls>>

\* lines 81-84
ReadGridParams ==
    /\ pc = "solar"
    /\ LET r == ExtractSolar(data) IN
        IF Returned(r)
        THEN /\ ssn' = r.ret.ssn
             /\ f10_7' = r.ret.f10_7
             /\ kp' = r.ret.kp
             /\ plot_data' = r.ret.plot_data
             /\ pc' = "tadm"
             /\ exc' = exc
        ELSE /\ Throw(81, r.raise)
             /\ UNCHANGED <<ssn, f10_7, kp, plot_data>>
    /\ UNCHANGED <<handler, query, products, measurements, data, dlr_json, dlr_data,
                   calls, result>>

\* lines 85-97
TadmStep ==
    /\ pc = "tadm"
    /\ LET r == ReconcileTADM(plot_data, products, measurements) IN
        IF Returned(r)
        THEN plot_data' = r.ret /\ pc' = "nequick" /\ exc' = exc
        ELSE plot_data' = plot_data /\ Throw(87, r.raise)
    /\ UNCHANGED <<handler, query, products, measurements, data, ssn, f10_7, kp,
                   dlr_json, dlr_data, calls, result>>

\* lines 98-101
NequickStep ==
    /\ pc = "nequick"
    /\ plot_data' = ReconcileNEQUICK(plot_data, products)
    /\ pc' = "nedm"
    /\ UNCHANGED <<handler, query, products, measurements, data, ssn, f10_7, kp,
                   dlr_json, dlr_data, exc, calls, result>>

\* line 102, NEDM2020 not requested
SkipNedm ==
    /\ pc = "nedm"
    /\ ~Contains(products, NEDM2020)
    /\ pc' = "assemble"
    /\ UNCHANGED <<handler, query, products, measurements, data, ssn, f10_7, kp,
                   plot_data, dlr_json, dlr_data, exc, calls, result>>

\* lines 102-115 with the call of get_dlr_data (lines 290-337) at line 106
NedmStep ==
    /\ pc = "nedm"
    /\ Contains(products, NEDM2020)
    /\ calls' = Append(calls, DlrCall(f10_7, query.lat, query.lon, Strftime(query.timestamp)))
    /\ \E b \in MergeDlrResponses :
        IF ~Returned(b)
        THEN /\ Throw(106, b.raise)
             /\ UNCHANGED <<dlr_json, dlr_data, plot_data>>
        ELSE LET d == GetDlrData(b.ret) IN
             /\ dlr_json' = b.ret
             /\ IF ~Returned(d)
                THEN /\ Throw(106, d.raise)
                     /\ UNCHANGED <<dlr_data, plot_data>>
                ELSE LET r == InsertNEDM(plot_data, d.ret, measurements) IN
                     /\ dlr_data' = d.ret
                     /\ IF Returned(r)
                        THEN plot_data' = r.ret /\ pc' = "assemble" /\ exc' = exc
                        ELSE plot_data' = plot_data /\ Throw(108, r.raise)
    /\ UNCHANGED <<handler, query, products, measurements, data, ssn, f10_7, kp, result>>

\* lines 117-128
Assemble ==
    /\ pc = "assemble"
    /\ result' = [timestamp |-> query.timestamp,
                  location |-> <<query.lat, query.lon>>,
                  ssn |-> ssn, f10_7 |-> f10_7, kp |-> kp,
                  products |-> products,
                  measurements |-> measurements,
                  plot_data |-> plot_data]
    /\ pc' = "done"
    /\ UNCHANGED <<handler, query, products, measurements, data, ssn, f10_7, kp,
                   plot_data, dlr_json, dlr_data, exc, calls>>

\* lines 129-131
Except ==
    /\ pc = "except"
    /\ result' = [error |-> exc]
    /\ pc' = "done"
    /\ UNCHANGED <<handler, query, products, measurements, data, ssn, f10_7, kp,
                   plot_data, dlr_json, dlr_data, exc, calls>>

\* lines 340-351: the hidden /dlr_data endpoint; nothing catches what
\* get_dlr_data raises
RunDlrData ==
    /\ pc = "idle"
    /\ handler' = "run_dlr_data"
    /\ \E q \in [timestamp : {"2025-02-01T10:45:00"}, lat : {50}, lon : {15}] :
        /\ query' = q
        /\ calls' = Append(calls, DlrCall(DefaultF10p7, q.lat, q.lon, Strftime(q.timestamp)))
    /\ \E b \in DlrResponses :
        IF ~Returned(b)
        THEN /\ exc' = b.raise /\ pc' = "escaped"
             /\ UNCHANGED <<dlr_json, dlr_data, result>>
        ELSE LET d == GetDlrData(b.ret) IN
             /\ dlr_json' = b.ret
             /\ IF Returned(d)
                THEN /\ dlr_data' = d.ret /\ result' = d.ret
                     /\ pc' = "done" /\ exc' = exc
                ELSE /\ exc' = d.raise /\ pc' = "escaped"
                     /\ UNCHANGED <<dlr_data, result>>
    /\ UNCHANGED <<products, measurements, data, ssn, f10_7, kp, plot_data>>

Next ==
    \/ RunWorkflow
    \/ RequestClientA
    \/ CheckStructure
    \/ ReadGridParams
    \/ TadmStep
    \/ NequickStep
    \/ SkipNedm
    \/ NedmStep
    \/ Assemble
    \/ Except
    \/ RunDlrData

Spec == Init /\ [][Next]_vars

-----------------------------------------------------------------------------
(* Vocabulary of the properties *)

InCallApi == handler = "run_workflow"
Done == InCallApi /\ pc = "done"
Failure == "error" \in DOMAIN result
MergedProfileKeys ==
    {"timestamp", "location", "ssn", "f10_7", "kp", "products", "measurements", "plot_data"}
Success == Done /\ DOMAIN result = MergedProfileKeys

Requested(m) == m \in Range(query.products)
RequestedKind(k) == k \in Range(query.measurements)

ClientBCalls == {i \in DOMAIN calls : calls[i].client = "B"}

HasTopLevelKeys == "grid_params" \in DOMAIN data /\ "model_data" \in DOMAIN data

\* Client A's body carries the solar context and a vprofile map
WellFormedBody ==
    /\ HasTopLevelKeys
    /\ "SolCycle" \in DOMAIN data["grid_params"]
    /\ {"ssn", "f10_7"} \subseteq DOMAIN data["grid_params"]["SolCycle"]
    /\ "Kp" \in DOMAIN data["grid_params"]
    /\ "kp" \in DOMAIN data["grid_params"]["Kp"]
    /\ "vprofile" \in DOMAIN data["model_data"]

Upstream == data["model_data"]["vprofile"]

\* Client A's TADM entry is missing, or lacks an array the merge reads
TadmIncomplete ==
    \/ TADM \notin DOMAIN Upstream
    \/ "theight" \notin DOMAIN Upstream[TADM]
    \/ \E k \in Measurements : RequestedKind(k) /\ k \notin DOMAIN Upstream[TADM]

-----------------------------------------------------------------------------
(* C1: whenever TADM is requested and call_api returns a MergedProfile,    *)
(* every theight of the TADM series is <= 1000 and each requested          *)
(* measurement array of the series is as long as theight.                  *)
C1_TadmAligned ==
    (Success /\ Requested(TADM)) =>
        LET s == result.plot_data[TADM] IN
        /\ \A i \in DOMAIN s["theight"] : s["theight"][i] <= 1000
        /\ \A k \in Measurements : RequestedKind(k) => Len(s[k]) = Len(s["theight"])

(* C2: a Client A body without grid_params or without model_data makes     *)
(* call_api return {error: body}, and Client B is never called.            *)
C2_StructuralFailure ==
    (InCallApi /\ "unset" \notin DOMAIN data /\ ~HasTopLevelKeys) =>
        /\ ClientBCalls = {}
        /\ pc \in {"check", "done"}
        /\ pc = "done" => result = [error |-> data]

C2_Witness ==
    /\ Done
    /\ Requested(NEDM2020)
    /\ "grid_params" \in DOMAIN data
    /\ "model_data" \notin DOMAIN data
    /\ result = [error |-> data]

(* C3: a model that was not requested is not a key of the MergedProfile's  *)
(* plot_data.                                                              *)
C3_NoUnrequestedModel ==
    Success => \A m \in PProducts : ~Requested(m) => m \notin DOMAIN result.plot_data

C3_Witness ==
    /\ Success
    /\ query.products = <<NEDM2020>>
    /\ {NEQUICK, TADM} \subseteq DOMAIN Upstream
    /\ DOMAIN result.plot_data = {NEDM2020}

(* C4: an unrequested measurement kind is absent from the NEDM2020 series, *)
(* while the NEQUICK series and the unrequested arrays of the TADM series  *)
(* are exactly what Client A returned.                                     *)
C4_FilterNedmOnly ==
    Success =>
        LET pd == result.plot_data IN
        /\ NEDM2020 \in DOMAIN pd =>
             \A k \in Measurements : ~RequestedKind(k) => k \notin DOMAIN pd[NEDM2020]
        /\ NEQUICK \in DOMAIN pd => pd[NEQUICK] = Upstream[NEQUICK]
        /\ TADM \in DOMAIN pd =>
             \A k \in Measurements : ~RequestedKind(k) =>
                /\ k \in DOMAIN pd[TADM] <=> k \in DOMAIN Upstream[TADM]
                /\ k \in DOMAIN pd[TADM] => pd[TADM][k] = Upstream[TADM][k]

C4_Witness ==
    /\ Success
    /\ query.measurements = <<"edensity">>
    /\ DOMAIN result.plot_data = PProducts
    /\ DOMAIN result.plot_data[NEDM2020] = {"theight", "edensity"}
    /\ Len(result.plot_data[NEDM2020]["theight"]) > 0
    /\ "frequency" \in DOMAIN result.plot_data[TADM]
    /\ Len(result.plot_data[TADM]["frequency"]) > Len(result.plot_data[TADM]["theight"])

(* C5: call_api never lets an exception out; it ends with a MergedProfile  *)
(* or with an ErrorPayload, never both, and no step before that is stuck.  *)
C5_NoEscape ==
    InCallApi =>
        /\ pc # "escaped"
        /\ pc = "done" => (Failure /\ DOMAIN result = {"error"}) \/ (Success /\ ~Failure)
        /\ pc # "done" => ENABLED Next

C5_Witness ==
    /\ Done
    /\ Failure
    /\ ClientBCalls # {}
    /\ result = [error |-> KeyError("geometry")]

(* C6 as claimed: when Client B returns its {error: ...} value, call_api   *)
(* returns a MergedProfile whose NEDM2020 entry is that value.             *)
C6_ErrorShapedEntry ==
    (Done /\ "error" \in DOMAIN dlr_data) =>
        /\ ~Failure
        /\ result.plot_data[NEDM2020] = dlr_data

(* C6 amended: when Client B returns its {error: ...} value, call_api      *)
(* returns the ErrorPayload of the KeyError raised at line 108.            *)
C6_ClientBErrorFails ==
    (Done /\ "error" \in DOMAIN dlr_data) => result = [error |-> KeyError(NEDM2020)]

C6_Witness ==
    /\ Done
    /\ WellFormedBody
    /\ dlr_data = NoFeatures
    /\ dlr_json = [features |-> <<>>]
    /\ Failure

(* C7: for a non-empty list of features, get_dlr_data returns the series   *)
(* of the features whose rounded altitude is in [100, 1000], in input      *)
(* order, the three arrays aligned index by index; it may be empty.        *)
AltitudeOf(feature) == Round(feature["geometry"]["coordinates"][3])
DensityOf(feature) == feature["properties"]["electron_density_10^12/m^3"]
Complete(feature) ==
    /\ {"geometry", "properties"} \subseteq DOMAIN feature
    /\ "electron_density_10^12/m^3" \in DOMAIN feature["properties"]
InRange(feature) == 100 <= AltitudeOf(feature) /\ AltitudeOf(feature) <= 1000

C7_NedmSeries ==
    (/\ "features" \in DOMAIN dlr_json
     /\ Len(dlr_json["features"]) > 0
     /\ \A i \in DOMAIN dlr_json["features"] : Complete(dlr_json["features"][i])) =>
        LET kept == SelectSeq(dlr_json["features"], InRange) IN
        /\ DOMAIN dlr_data = {NEDM2020}
        /\ DOMAIN dlr_data[NEDM2020] = {"theight", "frequency", "edensity"}
        /\ dlr_data[NEDM2020]["theight"] = [i \in 1..Len(kept) |-> AltitudeOf(kept[i])]
        /\ dlr_data[NEDM2020]["edensity"] =
             [i \in 1..Len(kept) |-> DensityOf(kept[i]) * 1000000]
        /\ dlr_data[NEDM2020]["frequency"] =
             [i \in 1..Len(kept) |-> 89803 * Sqrt(DensityOf(kept[i]))]

C7_Witness ==
    /\ handler = "run_dlr_data"
    /\ pc = "done"
    /\ dlr_json = [features |-> <<Feature(2003, 4), Feature(199, 4)>>]
    /\ result = [k \in {NEDM2020} |->
                   [theight |-> <<100>>, frequency |-> <<179606>>, edensity |-> <<4000000>>]]

C7_WitnessEmpty ==
    /\ handler = "run_dlr_data"
    /\ pc = "done"
    /\ dlr_json = [features |-> <<Feature(100, 4)>>]
    /\ result = [k \in {NEDM2020} |-> EmptySeries]

(* C8: within one call_api, Client B is called at most once, only when     *)
(* NEDM2020 is requested, only after Client A answered and ssn, f10_7 and  *)
(* kp were read, with that f10_7 and the query's lat and lon.              *)
C8_Sequential ==
    InCallApi =>
        /\ Cardinality(ClientBCalls) <= 1
        /\ \A i \in ClientBCalls :
            /\ Requested(NEDM2020)
            /\ i = 2
            /\ calls[1].client = "A"
            /\ WellFormedBody
            /\ ssn = data["grid_params"]["SolCycle"]["ssn"]
            /\ kp = data["grid_params"]["Kp"]["kp"]
            /\ f10_7 = data["grid_params"]["SolCycle"]["f10_7"]
            /\ calls[i].f10p7_sfu = data["grid_params"]["SolCycle"]["f10_7"]
            /\ calls[i].receiver.lat_deg = query.lat
            /\ calls[i].receiver.lon_deg = query.lon
            /\ calls[i].satellite.lat_deg = query.lat
            /\ calls[i].satellite.lon_deg = query.lon

C8_Witness ==
    /\ Success
    /\ Len(calls) = 2
    /\ calls[2].client = "B"
    /\ calls[2].f10p7_sfu = 150

(* C9: the MergedProfile's products and measurements fields are the model  *)
(* identifiers and measurement kinds the endpoint passed in, next to the   *)
(* timestamp, [lat, lon] and Client A's ssn, f10_7 and kp.                 *)
C9_EchoesQuery ==
    Success =>
        /\ result.products = query.products
        /\ result.measurements = query.measurements
        /\ result.timestamp = query.timestamp
        /\ result.location = <<query.lat, query.lon>>
        /\ result.ssn = data["grid_params"]["SolCycle"]["ssn"]
        /\ result.f10_7 = data["grid_params"]["SolCycle"]["f10_7"]
        /\ result.kp = data["grid_params"]["Kp"]["kp"]

(* C10: with TADM requested and Client A's TADM entry missing or lacking   *)
(* theight or a requested array, call_api returns an ErrorPayload and      *)
(* Client B is not called; a requested NEQUICK that is missing fails       *)
(* nothing and is merely absent from plot_data.                            *)
C10_MissingTadmFails ==
    /\ (InCallApi /\ WellFormedBody /\ Requested(TADM) /\ TadmIncomplete) =>
            /\ ClientBCalls = {}
            /\ pc = "done" => Failure
    /\ (Done /\ WellFormedBody /\ Requested(NEQUICK) /\ NEQUICK \notin DOMAIN Upstream
          /\ (Requested(TADM) => ~TadmIncomplete)
          /\ (Requested(NEDM2020) => NEDM2020 \in DOMAIN dlr_data)) =>
            /\ Success
            /\ NEQUICK \notin DOMAIN result.plot_data

C10_Witness ==
    /\ Done
    /\ WellFormedBody
    /\ query.products = <<NEQUICK, TADM, NEDM2020>>
    /\ DOMAIN Upstream = {NEQUICK}
    /\ result = [error |-> KeyError(TADM)]
    /\ ClientBCalls = {}

C10_WitnessNequick ==
    /\ Success
    /\ Requested(NEQUICK)
    /\ NEQUICK \notin DOMAIN Upstream
    /\ NEQUICK \notin DOMAIN result.plot_data

====
